---------------------------- MODULE Spec2Model ----------------------------
(***************************************************************************)
(* Slack data bot: slash command -> SQL generation -> gated, pooled query  *)
(* execution -> callback delivery.                                         *)
(*                                                                         *)
(* The web application is one asyncio event loop.  A coroutine runs until  *)
(* it awaits; sql_chain.execute and db_executor.execute_query are plain    *)
(* synchronous calls made from the coroutine process_slash_command, so     *)
(* they hold the loop from start to end.  The variable loop names the      *)
(* command whose synchronous section is running (0: the loop is free).     *)
(***************************************************************************)
EXTENDS Integers, Sequences, FiniteSets, TLC

(***************************************************************************)
(* Bounds of the model.                                                    *)
(***************************************************************************)
MaxFetched == 11
MaxSqlLen == 3

(***************************************************************************)
(* Program constants.                                                      *)
(***************************************************************************)
MAX_RESULT_ROWS == 10
QUERY_TIMEOUT == 30
DB_POOL_MAX == 10
MAX_QUESTION_LEN == 500
MAX_DRIVER_MSG == 100
HTTP_OK == 200

\* Two commands are in flight: enough for every interleaving of one
\* command's awaits with another command's stages.
Cmds == {1, 2}

(***************************************************************************)
(* Text.  A text is a sequence of pieces.  A piece is a literal, a run of  *)
(* n copies of the one-character string s, a number, or the display text   *)
(* of the cell of row n under column s.                                    *)
(***************************************************************************)
L(str) == [k |-> "lit", s |-> str, n |-> 1]
R(ch, cnt) == [k |-> "run", s |-> ch, n |-> cnt]
N(i) == [k |-> "num", s |-> "", n |-> i]
Cell(col, row) == [k |-> "cell", s |-> col, n |-> row]

IsSpace(p) == p.k = "run" /\ p.s = " "

RECURSIVE LStrip(_)
LStrip(t) == IF t # <<>> /\ IsSpace(Head(t)) THEN LStrip(Tail(t)) ELSE t

RECURSIVE RStrip(_)
RStrip(t) ==
    IF t # <<>> /\ IsSpace(t[Len(t)]) THEN RStrip(SubSeq(t, 1, Len(t) - 1)) ELSE t

\* no trimming at all
NoStrip(t) == t

\* str.strip()
Strip(t) == RStrip(LStrip(t))

\* len() of a text made of runs
RECURSIVE TextLen(_)
TextLen(t) == IF t = <<>> THEN 0 ELSE Head(t).n + TextLen(Tail(t))

\* s[:limit] of a text made of one run
Truncate(p, limit) == IF p.n <= limit THEN p ELSE [p EXCEPT !.n = limit]

\* sep.join(parts), parts a sequence of texts
RECURSIVE Join(_, _)
Join(sep, parts) ==
    IF parts = <<>> THEN <<>>
    ELSE IF Len(parts) = 1 THEN parts[1]
    ELSE parts[1] \o <<sep>> \o Join(sep, Tail(parts))

\* the warning glyph and the code-block fence (three backquotes)
GLYPH == L("[warning sign]")
FENCE == L("[code fence]")

(***************************************************************************)
(* SQL text.  A SQL text is a sequence of tokens; " " is whitespace and    *)
(* ";" the statement delimiter.                                            *)
(***************************************************************************)
Tokens ==
    {"SELECT", "select", "CREATE", "GRANT", "DROP", "drop", "Delete", "UPDATE",
     "INSERT", "ALTER", "truncate", "updated_at", "x", ";", " ", "<unparsable>"}

\* str.upper() of one token
Upper(tok) ==
    CASE tok = "select" -> "SELECT"
      [] tok = "drop" -> "DROP"
      [] tok = "Delete" -> "DELETE"
      [] tok = "truncate" -> "TRUNCATE"
      [] tok = "updated_at" -> "UPDATED_AT"
      [] tok = "x" -> "X"
      [] OTHER -> tok

\* kw in up, for an upper-cased token up
HasSubstring(up, kw) == up = kw \/ (up = "UPDATED_AT" /\ kw = "UPDATE")

\* the lexer's token class (keywords are matched in any letter case)
TokenClass(tok) ==
    CASE Upper(tok) \in {"SELECT", "DELETE", "UPDATE", "INSERT"} -> "DML"
      [] Upper(tok) \in {"CREATE", "DROP", "ALTER"} -> "DDL"
      [] Upper(tok) \in {"GRANT", "TRUNCATE"} -> "Keyword"
      [] tok = ";" -> "Punctuation"
      [] tok = " " -> "Whitespace"
      [] OTHER -> "Name"

\* sqlparse.parse(sql): a statement ends with its ";" and the whitespace
\* after it; a pending tail of whitespace alone is no statement.
RECURSIVE SplitFrom(_, _, _, _)
SplitFrom(toks, cur, closed, acc) ==
    IF toks = <<>>
    THEN IF \E i \in 1..Len(cur) : cur[i] # " " THEN Append(acc, cur) ELSE acc
    ELSE LET t == Head(toks) IN
         IF closed /\ t # " "
         THEN SplitFrom(Tail(toks), <<t>>, t = ";", Append(acc, cur))
         ELSE SplitFrom(Tail(toks), Append(cur, t), closed \/ t = ";", acc)

Parse(sql) == SplitFrom(sql, <<>>, FALSE, <<>>)

\* Statement.get_type(): the first token that is not whitespace decides
RECURSIVE GetType(_)
GetType(stmt) ==
    IF stmt = <<>> THEN "UNKNOWN"
    ELSE IF Head(stmt) = " " THEN GetType(Tail(stmt))
    ELSE IF TokenClass(Head(stmt)) \in {"DML", "DDL"} THEN Upper(Head(stmt))
    ELSE "UNKNOWN"

\* sqlparse raises on this text (the token stands for a fragment the
\* parser gives up on)
ParseRaises(sql) == \E i \in 1..Len(sql) : sql[i] = "<unparsable>"

Dangerous == {"DROP", "DELETE", "UPDATE", "INSERT", "ALTER", "TRUNCATE"}

\* any(keyword in sql.upper() for keyword in dangerous)
MentionsDangerous(sql) ==
    \E i \in 1..Len(sql) : \E kw \in Dangerous : HasSubstring(Upper(sql[i]), kw)

\* a gate of the denylist alone, matched without case folding
IsSafeQueryDenylistOnly(sql) ==
    /\ Parse(sql) # <<>>
    /\ ~\E i \in 1..Len(sql) : \E kw \in Dangerous : HasSubstring(sql[i], kw)

\* DatabaseExecutor._is_safe_query
IsSafeQuery(sql) ==
    LET parsed == Parse(sql) IN
    IF ParseRaises(sql) THEN FALSE
    ELSE IF parsed = <<>> THEN FALSE
    ELSE IF GetType(parsed[1]) # "SELECT" THEN FALSE
    ELSE IF MentionsDangerous(sql) THEN FALSE
    ELSE TRUE

\* SQLChainExecutor.execute, post-processing of the model's response:
\* strip, then append the delimiter when the text does not end with it
RECURSIVE StripSql(_)
StripSql(sql) ==
    IF sql # <<>> /\ Head(sql) = " " THEN StripSql(Tail(sql))
    ELSE IF sql # <<>> /\ sql[Len(sql)] = " " THEN StripSql(SubSeq(sql, 1, Len(sql) - 1))
    ELSE sql

PostProcess(raw) ==
    LET sql == StripSql(raw) IN
    IF sql # <<>> /\ sql[Len(sql)] = ";" THEN sql ELSE Append(sql, ";")

\* Responses the completion service may give.
LLMResponses ==
    { <<" ", "select", " ", "x", " ">>,
      <<"SELECT", " ", "x", ";", " ", "CREATE", " ", "x", ";">>,
      <<"GRANT", " ", "x", ";">>,
      <<"SELECT", " ", "updated_at">>,
      <<"drop", " ", "x", ";">>,
      <<"x", " ", "x">>,
      <<>> }

(***************************************************************************)
(* Errors.  A BotError carries the internal message and the user-facing    *)
(* one; cause is the class of the exception during whose handling it was   *)
(* raised (its __context__).  NoError stands for "no exception in flight". *)
(***************************************************************************)
NoText == <<>>
NoError == [cls |-> "none", message |-> NoText, user_friendly |-> NoText, cause |-> "none"]
BotError(cls, message, user_friendly, cause) ==
    [cls |-> cls, message |-> message, user_friendly |-> user_friendly, cause |-> cause]

BotErrorClasses == {"SQLGenerationError", "DatabaseError", "ValidationError", "SlackError"}

\* isinstance(error, BotError)
IsBotError(e) == e.cls \in BotErrorClasses

\* the driver's exception hierarchy: the base class of each class
BaseOf(cls) ==
    CASE cls = "QueryCanceledError" -> "OperationalError"
      [] cls = "OperationalError" -> "psycopg2.DatabaseError"
      [] cls = "ProgrammingError" -> "psycopg2.DatabaseError"
      [] cls = "DataError" -> "psycopg2.DatabaseError"
      [] cls = "psycopg2.DatabaseError" -> "psycopg2.Error"
      [] cls = "PoolError" -> "psycopg2.Error"
      [] cls = "psycopg2.Error" -> "Exception"
      [] OTHER -> "Exception"

RECURSIVE IsInstance(_, _)
IsInstance(cls, target) ==
    \/ cls = target
    \/ cls # "Exception" /\ IsInstance(BaseOf(cls), target)

\* what the driver reports with an exception: its class and str(e), a run
DriverMsgLens == {MAX_DRIVER_MSG - 1, MAX_DRIVER_MSG, MAX_DRIVER_MSG + 1}
DriverError(cls, len) == [cls |-> cls, text |-> R("e", len)]

\* the except clauses of execute_query that can match a driver exception,
\* in source order ("except ValidationError: raise" comes before them and
\* matches nothing the try block raises)
ExceptClauses ==
    << "OperationalError", "ProgrammingError", "QueryCanceledError", "Exception" >>

\* the first clause that matches the raised exception
MatchingClause(clauses, cls) ==
    clauses[CHOOSE i \in 1..Len(clauses) :
                /\ IsInstance(cls, clauses[i])
                /\ \A j \in 1..(i - 1) : ~IsInstance(cls, clauses[j])]

ConnectionLostMsg == <<L("Database connection lost. Try again.")>>
TookTooLongMsg == <<L("Query took too long (max "), N(QUERY_TIMEOUT), L(" seconds)")>>
GenericDbMsg == <<L("An error occurred executing the query")>>
OnlySelectMsg == <<L("Only SELECT queries are allowed (no CREATE, DROP, etc)")>>
GenerationFailedMsg == <<L("Failed to generate SQL. Please rephrase your question.")>>
SendFailedMsg == <<L("Failed to send message to Slack")>>
TransportFailedMsg == <<L("Failed to send response to Slack")>>

\* the body of the except clause that handles the driver error e
Translate(clause, e) ==
    CASE clause = "OperationalError" ->
            BotError("DatabaseError",
                     <<L("Database connection error: "), e.text>>, ConnectionLostMsg,
                     e.cls)
      [] clause = "ProgrammingError" ->
            BotError("DatabaseError",
                     <<L("SQL error: "), e.text>>,
                     <<L("Query error: "), Truncate(e.text, MAX_DRIVER_MSG)>>, e.cls)
      [] clause = "QueryCanceledError" ->
            BotError("DatabaseError", <<L("Query exceeded timeout")>>, TookTooLongMsg,
                     e.cls)
      [] OTHER ->
            BotError("DatabaseError", <<L("Unexpected error: "), e.text>>, GenericDbMsg,
                     e.cls)

\* execute_query: from a driver exception to the DatabaseError it raises
RaisedFor(e) == Translate(MatchingClause(ExceptClauses, e.cls), e)

ValidationFailed ==
    BotError("ValidationError",
             <<L("Query validation failed - not a SELECT statement")>>, OnlySelectMsg,
             "none")

\* SQLChainExecutor.execute: any failure of the model call
GenerationFailed(e) ==
    BotError("SQLGenerationError", <<e.text>>, GenerationFailedMsg, e.cls)

(***************************************************************************)
(* Messages.                                                               *)
(***************************************************************************)
AckResponse == [response_type |-> "ephemeral", text |-> "Processing your request..."]
Unauthorized == [response_type |-> "error", text |-> "401 Unauthorized"]
NoResponse == [response_type |-> "none", text |-> ""]

UsageMsg == <<L("Please ask a question.\nExample: /ask-data show revenue by region")>>
TooLongMsg == <<L("Question too long (max 500 characters).")>>
UnexpectedMsg == <<L("Unexpected error occurred.")>>

\* a or b, for texts: the empty text is falsy
Or(a, b) == IF a # NoText THEN a ELSE b

\* ErrorHandler.format_error(error)["slack_text"]
SlackText(e) ==
    IF IsBotError(e)
    THEN <<GLYPH, L(" ")>> \o Or(e.user_friendly, e.message)
    ELSE <<GLYPH, L(" An unexpected error occurred. Please try again later.")>>

\* utils.format_error_message
FormatErrorMessage(text) == <<FENCE, L("\n"), GLYPH, L(" ")>> \o text \o <<L("\n"), FENCE>>

(***************************************************************************)
(* Inputs.                                                                 *)
(***************************************************************************)
\* the "text" form field of an inbound command
RequestTexts ==
    { <<>>,
      <<R(" ", 3)>>,
      <<R(" ", 1), R("q", MAX_QUESTION_LEN), R(" ", 1)>>,
      <<R("q", MAX_QUESTION_LEN + 1)>>,
      <<R("q", MAX_QUESTION_LEN - 1), R(" ", 1), R("q", 1)>> }

\* how many rows the database may return
FetchCounts == {0, 1} \cup ((MAX_RESULT_ROWS - 1)..MaxFetched)

\* cursor.description of a result set
Descriptions == { <<>>, <<"region", "total">> }

\* len() of a column name
StrLen(name) == CASE name = "region" -> 6 [] name = "total" -> 5 [] OTHER -> 1

\* what the callback POST may answer: a status, or 0 for a transport error
PostOutcomes == {HTTP_OK, 204, 500, 0}

\* exceptions of the driver: while connecting, while executing, at commit
ConnectErrors == {DriverError("OperationalError", 1)}
ExecuteErrors ==
    {DriverError("OperationalError", 1), DriverError("QueryCanceledError", 1),
     DriverError("DataError", 1)}
        \cup {DriverError("ProgrammingError", len) : len \in DriverMsgLens}
CommitErrors == {DriverError("OperationalError", 1)}

(***************************************************************************)
(* State.                                                                  *)
(***************************************************************************)
VARIABLES
    pc,         \* where each command is
    loop,       \* the command running on the event loop, 0 when it is free
    request,    \* the inbound request: signature validity and text field
    response,   \* the synchronous HTTP response of the handler
    question,   \* process_slash_command's argument
    sql,        \* the generated SQL text
    exc,        \* the exception in flight
    conn,       \* execute_query's local conn: TRUE when it holds a connection
    fetched,    \* rows and columns read from the cursor
    result,     \* what execute_query returned
    outbox,     \* the message being sent and where the call was made
    posts,      \* history: every callback POST, with its outcome
    sent,       \* history: every statement passed to cursor.execute
    calls,      \* history: counters of calls made for the command
    outcome     \* how the background unit ended

vars ==
    << pc, loop, request, response, question, sql, exc, conn, fetched, result,
       outbox, posts, sent, calls, outcome >>

NoRequest == [sig |-> FALSE, text |-> NoText]
NoRows == [columns |-> <<>>, rows |-> <<>>]
NoResult == [columns |-> <<>>, rows |-> <<>>, info |-> NoText]
NoMessage == [text |-> NoText, origin |-> "none"]
NoCalls == [llm |-> 0, exec |-> 0, getconn |-> 0, putconn |-> 0]

Init ==
    /\ pc = [c \in Cmds |-> "idle"]
    /\ loop = 0
    /\ request = [c \in Cmds |-> NoRequest]
    /\ response = [c \in Cmds |-> NoResponse]
    /\ question = [c \in Cmds |-> NoText]
    /\ sql = [c \in Cmds |-> <<>>]
    /\ exc = [c \in Cmds |-> NoError]
    /\ conn = [c \in Cmds |-> FALSE]
    /\ fetched = [c \in Cmds |-> NoRows]
    /\ result = [c \in Cmds |-> NoResult]
    /\ outbox = [c \in Cmds |-> NoMessage]
    /\ posts = [c \in Cmds |-> <<>>]
    /\ sent = [c \in Cmds |-> <<>>]
    /\ calls = [c \in Cmds |-> NoCalls]
    /\ outcome = [c \in Cmds |-> "pending"]

\* connections checked out of the pool
CheckedOut == Cardinality({c \in Cmds : conn[c]})

(***************************************************************************)
(* handle_slash_command                                                    *)
(***************************************************************************)
\* the request arrives; the handler awaits its body
Receive(c) ==
    /\ pc[c] = "idle"
    /\ loop = 0
    /\ \E sig \in BOOLEAN, text \in RequestTexts :
          request' = [request EXCEPT ![c] = [sig |-> sig, text |-> text]]
    /\ pc' = [pc EXCEPT ![c] = "recv"]
    /\ UNCHANGED << loop, response, question, sql, exc, conn, fetched, result,
                    outbox, posts, sent, calls, outcome >>

\* a handler that goes on whatever the signature check says
VerifyAcceptsAll(c) ==
    /\ pc[c] = "recv"
    /\ loop = 0
    /\ pc' = [pc EXCEPT ![c] = "verified"]
    /\ UNCHANGED << loop, request, response, question, sql, exc, conn, fetched,
                    result, outbox, posts, sent, calls, outcome >>

\* signature check: 401 on an invalid one, else await the form
Verify(c) ==
    /\ pc[c] = "recv"
    /\ loop = 0
    /\ IF ~request[c].sig
       THEN /\ response' = [response EXCEPT ![c] = Unauthorized]
            /\ pc' = [pc EXCEPT ![c] = "rejected"]
       ELSE /\ pc' = [pc EXCEPT ![c] = "verified"]
            /\ UNCHANGED response
    /\ UNCHANGED << loop, request, question, sql, exc, conn, fetched, result,
                    outbox, posts, sent, calls, outcome >>

\* form fields read, question stripped, background task added
Schedule(c) ==
    /\ pc[c] = "verified"
    /\ loop = 0
    /\ question' = [question EXCEPT ![c] = Strip(request[c].text)]
    /\ pc' = [pc EXCEPT ![c] = "scheduled"]
    /\ UNCHANGED << loop, request, response, sql, exc, conn, fetched, result,
                    outbox, posts, sent, calls, outcome >>

\* the handler returns and the response goes out
Acknowledge(c) ==
    /\ pc[c] = "scheduled"
    /\ loop = 0
    /\ response' = [response EXCEPT ![c] = AckResponse]
    /\ pc' = [pc EXCEPT ![c] = "acked"]
    /\ UNCHANGED << loop, request, question, sql, exc, conn, fetched, result,
                    outbox, posts, sent, calls, outcome >>

\* the stage from which the background task may be started: the framework
\* runs the tasks of a response after the response has been sent
TaskStartsEager(c) == pc[c] \in {"scheduled", "acked"}
TaskStarts(c) == pc[c] = "acked"

(***************************************************************************)
(* process_slash_command                                                   *)
(***************************************************************************)
\* the reply of the except clauses of process_slash_command
ErrorReply(e) ==
    IF IsBotError(e)
    THEN FormatErrorMessage(SlackText(e))
    ELSE FormatErrorMessage(UnexpectedMsg)

\* the coroutine ends: its locals are gone
Finish(c, how) ==
    /\ pc' = [pc EXCEPT ![c] = "done"]
    /\ outcome' = [outcome EXCEPT ![c] = how]
    /\ question' = [question EXCEPT ![c] = NoText]
    /\ sql' = [sql EXCEPT ![c] = <<>>]
    /\ exc' = [exc EXCEPT ![c] = NoError]
    /\ fetched' = [fetched EXCEPT ![c] = NoRows]
    /\ result' = [result EXCEPT ![c] = NoResult]
    /\ outbox' = [outbox EXCEPT ![c] = NoMessage]

\* a length check that rejects the maximum length itself
TooLongOffByOne(q) == TextLen(q) >= MAX_QUESTION_LEN

\* len(question) > 500
TooLong(q) == TextLen(q) > MAX_QUESTION_LEN

\* a task that checks a connection out before the model call
StartTaskCheckingOut(c) ==
    /\ TaskStarts(c)
    /\ loop = 0
    /\ IF question[c] = NoText
       THEN /\ outbox' = [outbox EXCEPT ![c] = [text |-> UsageMsg, origin |-> "try"]]
            /\ pc' = [pc EXCEPT ![c] = "posting"]
            /\ UNCHANGED << loop, conn >>
       ELSE IF TooLong(question[c])
       THEN /\ outbox' = [outbox EXCEPT ![c] = [text |-> TooLongMsg, origin |-> "try"]]
            /\ pc' = [pc EXCEPT ![c] = "posting"]
            /\ UNCHANGED << loop, conn >>
       ELSE /\ pc' = [pc EXCEPT ![c] = "generate"]
            /\ loop' = c
            /\ conn' = [conn EXCEPT ![c] = TRUE]
            /\ UNCHANGED outbox
    /\ UNCHANGED << request, response, question, sql, exc, fetched, result,
                    posts, sent, calls, outcome >>

\* the task starts: question checks, then on to the model call
StartTask(c) ==
    /\ TaskStarts(c)
    /\ loop = 0
    /\ IF question[c] = NoText
       THEN /\ outbox' = [outbox EXCEPT ![c] = [text |-> UsageMsg, origin |-> "try"]]
            /\ pc' = [pc EXCEPT ![c] = "posting"]
            /\ UNCHANGED loop
       ELSE IF TooLong(question[c])
       THEN /\ outbox' = [outbox EXCEPT ![c] = [text |-> TooLongMsg, origin |-> "try"]]
            /\ pc' = [pc EXCEPT ![c] = "posting"]
            /\ UNCHANGED loop
       ELSE /\ pc' = [pc EXCEPT ![c] = "generate"]
            /\ loop' = c
            /\ UNCHANGED outbox
    /\ UNCHANGED << request, response, question, sql, exc, conn, fetched, result,
                    posts, sent, calls, outcome >>

\* sql_chain.execute(question): one model call, post-processed, or a
\* SQLGenerationError
Generate(c) ==
    /\ pc[c] = "generate"
    /\ loop = c
    /\ calls' = [calls EXCEPT ![c].llm = @ + 1]
    /\ \/ \E raw \in LLMResponses :
             /\ sql' = [sql EXCEPT ![c] = PostProcess(raw)]
             /\ pc' = [pc EXCEPT ![c] = "execute"]
             /\ UNCHANGED exc
       \/ /\ exc' = [exc EXCEPT ![c] = GenerationFailed(DriverError("APIError", 1))]
          /\ pc' = [pc EXCEPT ![c] = "handle"]
          /\ UNCHANGED sql
    /\ UNCHANGED << loop, request, response, question, conn, fetched, result,
                    outbox, posts, sent, outcome >>

(***************************************************************************)
(* DatabaseExecutor.execute_query                                          *)
(***************************************************************************)
\* entry without the gate
EnterExecuteQueryUngated(c) ==
    /\ pc[c] = "execute"
    /\ loop = c
    /\ calls' = [calls EXCEPT ![c].exec = @ + 1]
    /\ pc' = [pc EXCEPT ![c] = "getconn"]
    /\ UNCHANGED << loop, request, response, question, sql, exc, conn, fetched,
                    result, outbox, posts, sent, outcome >>

\* entry: the gate, before the try block
EnterExecuteQuery(c) ==
    /\ pc[c] = "execute"
    /\ loop = c
    /\ calls' = [calls EXCEPT ![c].exec = @ + 1]
    /\ IF ~IsSafeQuery(sql[c])
       THEN /\ exc' = [exc EXCEPT ![c] = ValidationFailed]
            /\ pc' = [pc EXCEPT ![c] = "handle"]
       ELSE /\ pc' = [pc EXCEPT ![c] = "getconn"]
            /\ UNCHANGED exc
    /\ UNCHANGED << loop, request, response, question, sql, conn, fetched,
                    result, outbox, posts, sent, outcome >>

\* an exception raised inside the try block: the matching except clause
\* raises the DatabaseError, then the finally block runs
RaiseInTry(c, e) ==
    /\ exc' = [exc EXCEPT ![c] = RaisedFor(e)]
    /\ pc' = [pc EXCEPT ![c] = "finally"]

\* conn = self.conn_pool.getconn()
GetConn(c) ==
    /\ pc[c] = "getconn"
    /\ loop = c
    /\ \/ /\ CheckedOut < DB_POOL_MAX
          /\ conn' = [conn EXCEPT ![c] = TRUE]
          /\ calls' = [calls EXCEPT ![c].getconn = @ + 1]
          /\ pc' = [pc EXCEPT ![c] = "settimeout"]
          /\ UNCHANGED exc
       \/ /\ \E e \in ConnectErrors \cup
                      (IF CheckedOut >= DB_POOL_MAX
                       THEN {DriverError("PoolError", 1)} ELSE {}) :
                RaiseInTry(c, e)
          /\ UNCHANGED << conn, calls >>
    /\ UNCHANGED << loop, request, response, question, sql, fetched, result,
                    outbox, posts, sent, outcome >>

\* cursor = conn.cursor(); SET statement_timeout
SetTimeout(c) ==
    /\ pc[c] = "settimeout"
    /\ loop = c
    /\ sent' = [sent EXCEPT ![c] =
                   Append(@, [kind |-> "set", sql |-> <<>>, ms |-> QUERY_TIMEOUT * 1000])]
    /\ \/ /\ pc' = [pc EXCEPT ![c] = "query"]
          /\ UNCHANGED exc
       \/ \E e \in ConnectErrors : RaiseInTry(c, e)
    /\ UNCHANGED << loop, request, response, question, sql, conn, fetched,
                    result, outbox, posts, calls, outcome >>

\* cursor.execute(sql); rows = cursor.fetchall(); columns from description
RunQuery(c) ==
    /\ pc[c] = "query"
    /\ loop = c
    /\ sent' = [sent EXCEPT ![c] = Append(@, [kind |-> "query", sql |-> sql[c], ms |-> 0])]
    /\ \/ \E n \in FetchCounts, d \in Descriptions :
             /\ fetched' = [fetched EXCEPT ![c] =
                               [columns |-> d, rows |-> [i \in 1..n |-> i]]]
             /\ pc' = [pc EXCEPT ![c] = "commit"]
             /\ UNCHANGED exc
       \/ /\ \E e \in ExecuteErrors : RaiseInTry(c, e)
          /\ UNCHANGED fetched
    /\ UNCHANGED << loop, request, response, question, sql, conn, result,
                    outbox, posts, calls, outcome >>

\* the cardinality descriptor
ExactCount(n) == IF n = 1 THEN <<N(1), L(" row")>> ELSE <<N(n), L(" rows")>>
Limited(cap, n) == <<N(cap), L(" of "), N(n), L(" rows (limited)")>>

\* a cap that cuts one row short
ApplyCapOffByOne(f) ==
    LET n == Len(f.rows) IN
    IF n < MAX_RESULT_ROWS
    THEN [columns |-> f.columns, rows |-> f.rows, info |-> ExactCount(n)]
    ELSE [columns |-> f.columns,
          rows |-> SubSeq(f.rows, 1, MAX_RESULT_ROWS - 1),
          info |-> Limited(MAX_RESULT_ROWS - 1, n)]

\* the row cap and the descriptor
ApplyCap(f) ==
    LET n == Len(f.rows) IN
    IF n = 0 THEN [columns |-> f.columns, rows |-> f.rows, info |-> ExactCount(0)]
    ELSE IF n = 1 THEN [columns |-> f.columns, rows |-> f.rows, info |-> ExactCount(1)]
    ELSE IF n <= MAX_RESULT_ROWS
    THEN [columns |-> f.columns, rows |-> f.rows, info |-> ExactCount(n)]
    ELSE [columns |-> f.columns,
          rows |-> SubSeq(f.rows, 1, MAX_RESULT_ROWS),
          info |-> Limited(MAX_RESULT_ROWS, n)]

\* cursor.close(); conn.commit(); cap; return
Commit(c) ==
    /\ pc[c] = "commit"
    /\ loop = c
    /\ \/ /\ result' = [result EXCEPT ![c] = ApplyCap(fetched[c])]
          /\ pc' = [pc EXCEPT ![c] = "finally"]
          /\ UNCHANGED exc
       \/ /\ \E e \in CommitErrors : RaiseInTry(c, e)
          /\ UNCHANGED result
    /\ UNCHANGED << loop, request, response, question, sql, conn, fetched,
                    outbox, posts, sent, calls, outcome >>

\* execute_query without the release of its finally block
FinallyWithoutRelease(c) ==
    /\ pc[c] = "finally"
    /\ loop = c
    /\ pc' = [pc EXCEPT ![c] = IF exc[c] = NoError THEN "format" ELSE "handle"]
    /\ UNCHANGED << loop, request, response, question, sql, exc, conn, fetched,
                    result, outbox, posts, sent, calls, outcome >>

\* a release on the success path alone
FinallyOnSuccessOnly(c) ==
    /\ pc[c] = "finally"
    /\ loop = c
    /\ IF conn[c] /\ exc[c] = NoError
       THEN /\ conn' = [conn EXCEPT ![c] = FALSE]
            /\ calls' = [calls EXCEPT ![c].putconn = @ + 1]
       ELSE UNCHANGED << conn, calls >>
    /\ pc' = [pc EXCEPT ![c] = IF exc[c] = NoError THEN "format" ELSE "handle"]
    /\ UNCHANGED << loop, request, response, question, sql, exc, fetched, result,
                    outbox, posts, sent, outcome >>

\* finally: if conn: putconn(conn); then the return or the raise completes
Finally(c) ==
    /\ pc[c] = "finally"
    /\ loop = c
    /\ IF conn[c]
       THEN /\ conn' = [conn EXCEPT ![c] = FALSE]
            /\ calls' = [calls EXCEPT ![c].putconn = @ + 1]
       ELSE UNCHANGED << conn, calls >>
    /\ pc' = [pc EXCEPT ![c] = IF exc[c] = NoError THEN "format" ELSE "handle"]
    /\ UNCHANGED << loop, request, response, question, sql, exc, fetched, result,
                    outbox, posts, sent, outcome >>

(***************************************************************************)
(* process_slash_command, continued: formatting and delivery               *)
(***************************************************************************)
\* len(header)
RECURSIVE HeaderLen(_)
HeaderLen(columns) ==
    IF columns = <<>> THEN 0
    ELSE IF Len(columns) = 1 THEN StrLen(columns[1])
    ELSE StrLen(columns[1]) + 3 + HeaderLen(Tail(columns))

\* a result message that looks at the columns to tell an empty result
ResultMessageByColumns(columns, rows, info) ==
    IF columns = <<>>
    THEN <<L("*Results:*\n\nNo data found.")>>
    ELSE LET header == Join(L(" | "), [k \in 1..Len(columns) |-> <<L(columns[k])>>])
             separator == R("-", HeaderLen(columns))
             line(r) == Join(L(" | "), [k \in 1..Len(columns) |-> <<Cell(columns[k], r)>>])
             table == Join(L("\n"), [i \in 1..Len(rows) |-> line(rows[i])])
         IN  <<L("*Results:*\n"), FENCE>> \o header \o <<L("\n"), separator, L("\n")>>
                 \o table \o <<FENCE, L("\n_")>> \o info \o <<L("_")>>

\* the result message
ResultMessage(columns, rows, info) ==
    IF rows = <<>>
    THEN <<L("*Results:*\n\nNo data found.")>>
    ELSE LET header == Join(L(" | "), [k \in 1..Len(columns) |-> <<L(columns[k])>>])
             separator == R("-", HeaderLen(columns))
             line(r) == Join(L(" | "), [k \in 1..Len(columns) |-> <<Cell(columns[k], r)>>])
             table == Join(L("\n"), [i \in 1..Len(rows) |-> line(rows[i])])
         IN  <<L("*Results:*\n"), FENCE>> \o header \o <<L("\n"), separator, L("\n")>>
                 \o table \o <<FENCE, L("\n_")>> \o info \o <<L("_")>>

\* execute_query returned: build the message and await its delivery
Format(c) ==
    /\ pc[c] = "format"
    /\ loop = c
    /\ outbox' = [outbox EXCEPT ![c] =
                     [text |-> ResultMessage(result[c].columns, result[c].rows,
                                             result[c].info),
                      origin |-> "try"]]
    /\ pc' = [pc EXCEPT ![c] = "posting"]
    /\ loop' = 0
    /\ UNCHANGED << request, response, question, sql, exc, conn, fetched, result,
                    posts, sent, calls, outcome >>

\* except clauses that go back to the model call after a generation failure
HandleRetrying(c) ==
    /\ pc[c] = "handle"
    /\ loop = c
    /\ IF exc[c].cls = "SQLGenerationError"
       THEN /\ pc' = [pc EXCEPT ![c] = "generate"]
            /\ exc' = [exc EXCEPT ![c] = NoError]
            /\ UNCHANGED << loop, outbox >>
       ELSE /\ outbox' = [outbox EXCEPT ![c] =
                             [text |-> ErrorReply(exc[c]), origin |-> "except"]]
            /\ pc' = [pc EXCEPT ![c] = "posting"]
            /\ loop' = 0
            /\ UNCHANGED exc
    /\ UNCHANGED << request, response, question, sql, conn, fetched, result,
                    posts, sent, calls, outcome >>

\* except clauses that swallow the exception and end the unit
HandleSilently(c) ==
    /\ pc[c] = "handle"
    /\ loop = c
    /\ Finish(c, "returned")
    /\ loop' = 0
    /\ UNCHANGED << request, response, conn, posts, sent, calls >>

\* an exception reached the except clauses: build the reply and await its
\* delivery
Handle(c) ==
    /\ pc[c] = "handle"
    /\ loop = c
    /\ outbox' = [outbox EXCEPT ![c] = [text |-> ErrorReply(exc[c]), origin |-> "except"]]
    /\ pc' = [pc EXCEPT ![c] = "posting"]
    /\ loop' = 0
    /\ UNCHANGED << request, response, question, sql, exc, conn, fetched, result,
                    posts, sent, calls, outcome >>

(***************************************************************************)
(* SlackHandler.send_response                                              *)
(***************************************************************************)
\* a check that takes every 2xx status for a delivery
Delivered2xx(status) == status \div 100 = 2

\* response.status_code != 200 raises
Delivered(status) == status = HTTP_OK

\* the SlackError of a failed delivery
SendFailed(status) ==
    IF status = 0
    THEN BotError("SlackError", <<L("transport error")>>, TransportFailedMsg,
                  "TransportError")
    ELSE BotError("SlackError", <<L("Slack responded with "), N(status)>>, SendFailedMsg,
                  "none")

\* a delivery that is repeated when it fails inside an except clause
PostRetrying(c) ==
    /\ pc[c] = "posting"
    /\ loop = 0
    /\ \E status \in PostOutcomes :
          /\ posts' = [posts EXCEPT ![c] =
                          Append(@, [text |-> outbox[c].text, status |-> status,
                                     origin |-> outbox[c].origin])]
          /\ IF Delivered(status)
             THEN Finish(c, "returned")
             ELSE /\ exc' = [exc EXCEPT ![c] = SendFailed(status)]
                  /\ outbox' = [outbox EXCEPT ![c] =
                                   [text |-> ErrorReply(SendFailed(status)),
                                    origin |-> "except"]]
                  /\ UNCHANGED << pc, outcome, question, sql, fetched, result >>
    /\ UNCHANGED << loop, request, response, conn, sent, calls >>

\* the awaited send_response completes.  Its SlackError is caught by
\* "except BotError" when the call was made in the try block, and leaves
\* process_slash_command when the call was made in an except clause.
Post(c) ==
    /\ pc[c] = "posting"
    /\ loop = 0
    /\ \E status \in PostOutcomes :
          /\ posts' = [posts EXCEPT ![c] =
                          Append(@, [text |-> outbox[c].text, status |-> status,
                                     origin |-> outbox[c].origin])]
          /\ IF Delivered(status)
             THEN Finish(c, "returned")
             ELSE IF outbox[c].origin = "try"
             THEN /\ exc' = [exc EXCEPT ![c] = SendFailed(status)]
                  /\ outbox' = [outbox EXCEPT ![c] =
                                   [text |-> ErrorReply(SendFailed(status)),
                                    origin |-> "except"]]
                  /\ UNCHANGED << pc, outcome, question, sql, fetched, result >>
             ELSE Finish(c, "raised")
    /\ UNCHANGED << loop, request, response, conn, sent, calls >>

(***************************************************************************)
(* Specification                                                           *)
(***************************************************************************)
Next ==
    \E c \in Cmds :
        \/ Receive(c)
        \/ Verify(c)
        \/ Schedule(c)
        \/ Acknowledge(c)
        \/ StartTask(c)
        \/ Generate(c)
        \/ EnterExecuteQuery(c)
        \/ GetConn(c)
        \/ SetTimeout(c)
        \/ RunQuery(c)
        \/ Commit(c)
        \/ Finally(c)
        \/ Format(c)
        \/ Handle(c)
        \/ Post(c)

Spec == Init /\ [][Next]_vars

\* The steps of the background units.  The event loop runs a ready
\* coroutine, and every external call (model, database, callback POST)
\* returns or fails within its timeout.
BackgroundNext ==
    \E c \in Cmds :
        \/ StartTask(c)
        \/ Generate(c)
        \/ EnterExecuteQuery(c)
        \/ GetConn(c)
        \/ SetTimeout(c)
        \/ RunQuery(c)
        \/ Commit(c)
        \/ Finally(c)
        \/ Format(c)
        \/ Handle(c)
        \/ Post(c)

FairSpec == Spec /\ WF_vars(BackgroundNext)

(***************************************************************************)
(* execute_query called on its own, with any SQL text of up to MaxSqlLen   *)
(* tokens, as the executor's test script calls it.                         *)
(***************************************************************************)
RECURSIVE TextsUpTo(_)
TextsUpTo(n) ==
    IF n = 0 THEN {<<>>}
    ELSE LET shorter == TextsUpTo(n - 1) IN
         shorter \cup {Append(t, tok) : t \in {u \in shorter : Len(u) = n - 1},
                                        tok \in Tokens}

SqlTexts == TextsUpTo(MaxSqlLen)

ExecInit ==
    /\ pc = [c \in Cmds |-> IF c = 1 THEN "execute" ELSE "idle"]
    /\ loop = 1
    /\ request = [c \in Cmds |-> NoRequest]
    /\ response = [c \in Cmds |-> NoResponse]
    /\ question = [c \in Cmds |-> NoText]
    /\ \E text \in SqlTexts : sql = [c \in Cmds |-> IF c = 1 THEN text ELSE <<>>]
    /\ exc = [c \in Cmds |-> NoError]
    /\ conn = [c \in Cmds |-> FALSE]
    /\ fetched = [c \in Cmds |-> NoRows]
    /\ result = [c \in Cmds |-> NoResult]
    /\ outbox = [c \in Cmds |-> NoMessage]
    /\ posts = [c \in Cmds |-> <<>>]
    /\ sent = [c \in Cmds |-> <<>>]
    /\ calls = [c \in Cmds |-> NoCalls]
    /\ outcome = [c \in Cmds |-> "pending"]

ExecNext ==
    \/ EnterExecuteQuery(1)
    \/ GetConn(1)
    \/ SetTimeout(1)
    \/ RunQuery(1)
    \/ Commit(1)
    \/ Finally(1)

ExecSpec == ExecInit /\ [][ExecNext]_vars

(***************************************************************************)
(* Properties                                                              *)
(***************************************************************************)
HandlerStages == {"idle", "recv", "verified", "rejected", "scheduled", "acked"}
InExecuteQuery == {"getconn", "settimeout", "query", "commit", "finally"}

\* the background unit of c has started
Started(c) == pc[c] \notin HandlerStages

\* the question the handler hands to the background unit, judged on the
\* request itself
IsBlank(t) == \A i \in 1..Len(t) : IsSpace(t[i])

RECURSIVE TrimmedLen(_)
TrimmedLen(t) ==
    IF IsBlank(t) THEN 0
    ELSE IF IsSpace(Head(t)) THEN TrimmedLen(Tail(t))
    ELSE IF IsSpace(t[Len(t)]) THEN TrimmedLen(SubSeq(t, 1, Len(t) - 1))
    ELSE TextLen(t)

\* the first delivery of c, made or pending
FirstDelivery(c) ==
    IF posts[c] # <<>>
    THEN [text |-> posts[c][1].text, origin |-> posts[c][1].origin]
    ELSE outbox[c]

RECURSIVE GlyphCount(_)
GlyphCount(t) ==
    IF t = <<>> THEN 0
    ELSE (IF Head(t) = GLYPH THEN 1 ELSE 0) + GlyphCount(Tail(t))

\* C1: once any stage of a command's background unit has started, and in
\* every state after it up to and including every way the unit can end, the
\* handler's response for that command is the acknowledgment.
C1_AckBeforeBackground ==
    \A c \in Cmds : Started(c) => response[c] = AckResponse

\* C1 witness: a background unit that ended with an exception, acknowledged.
C1_Witness ==
    \E c \in Cmds :
        pc[c] = "done" /\ outcome[c] = "raised" /\ response[c] = AckResponse

\* C2: every query text passed to the connection is exactly one statement,
\* and that statement is a SELECT.
C2_OnlySingleSelectSent ==
    \A c \in Cmds : \A i \in 1..Len(sent[c]) :
        sent[c][i].kind = "query" =>
            /\ Len(Parse(sent[c][i].sql)) = 1
            /\ GetType(Parse(sent[c][i].sql)[1]) = "SELECT"

\* C3: a command never has more releases than checkouts, holds at most one
\* connection inside execute_query, and outside execute_query holds none
\* and has as many releases as checkouts.
C3_CheckoutReleased ==
    \A c \in Cmds :
        /\ calls[c].putconn <= calls[c].getconn
        /\ calls[c].getconn <= calls[c].putconn + 1
        /\ conn[c] <=> calls[c].getconn = calls[c].putconn + 1
        /\ pc[c] \notin InExecuteQuery =>
              /\ ~conn[c]
              /\ calls[c].getconn = calls[c].putconn

\* C3 witness: execute_query raised after a checkout, released once.
C3_Witness ==
    \E c \in Cmds :
        /\ pc[c] = "handle"
        /\ exc[c].cls = "DatabaseError"
        /\ calls[c].getconn = 1
        /\ calls[c].putconn = 1

\* C4: a command whose generated SQL does not pass _is_safe_query has, once
\* execute_query was entered, a ValidationError raised for it, no checkout,
\* no connection held and no statement passed to a connection.
C4_UnsafeNeverTouchesPool ==
    \A c \in Cmds :
        (calls[c].exec > 0 /\ sql[c] # <<>> /\ ~IsSafeQuery(sql[c])) =>
            /\ calls[c].getconn = 0
            /\ ~conn[c]
            /\ sent[c] = <<>>
            /\ pc[c] \in {"handle", "posting"}
            /\ pc[c] = "handle" => exc[c] = ValidationFailed
            /\ FirstDelivery(c).text = NoText
                 \/ FirstDelivery(c).text = ErrorReply(ValidationFailed)

\* C4 witness: execute_query has just raised the ValidationError.
C4_Witness ==
    \E c \in Cmds :
        /\ pc[c] = "handle"
        /\ calls[c].exec = 1
        /\ exc[c] = ValidationFailed
        /\ ~IsSafeQuery(sql[c])

\* C5: a started command whose question is blank makes no model call and
\* no execute_query call; it is delivering or has delivered, as its first
\* message, the plain usage text from the try block, or it has ended.
C5_EmptyQuestion ==
    \A c \in Cmds :
        (Started(c) /\ IsBlank(request[c].text)) =>
            /\ calls[c].llm = 0
            /\ calls[c].exec = 0
            /\ sent[c] = <<>>
            /\ pc[c] \in {"posting", "done"}
            /\ FirstDelivery(c) = [text |-> UsageMsg, origin |-> "try"]

\* C5 witness: a whitespace-only question answered with the usage text.
C5_Witness ==
    \E c \in Cmds :
        /\ pc[c] = "done"
        /\ request[c].text # <<>>
        /\ IsBlank(request[c].text)
        /\ posts[c] = <<[text |-> UsageMsg, status |-> HTTP_OK, origin |-> "try"]>>

\* C6: a started command whose trimmed question is longer than 500 makes
\* no model call and no execute_query call and first delivers the
\* "too long" text; one whose trimmed question has 1..500 characters is in
\* the model call or has made it.
C6_QuestionLength ==
    \A c \in Cmds :
        LET len == TrimmedLen(request[c].text) IN
        /\ (Started(c) /\ len > MAX_QUESTION_LEN) =>
              /\ calls[c].llm = 0
              /\ calls[c].exec = 0
              /\ pc[c] \in {"posting", "done"}
              /\ FirstDelivery(c) = [text |-> TooLongMsg, origin |-> "try"]
        /\ (Started(c) /\ len >= 1 /\ len <= MAX_QUESTION_LEN) =>
              \/ pc[c] = "generate" /\ calls[c].llm = 0
              \/ calls[c].llm = 1

\* C6 witness: a question of exactly 500 reached the model call and one of
\* 501 ended after the "too long" text.
C6_Witness ==
    \E c, d \in Cmds :
        /\ TrimmedLen(request[c].text) = MAX_QUESTION_LEN
        /\ calls[c].llm = 1
        /\ TrimmedLen(request[d].text) = MAX_QUESTION_LEN + 1
        /\ pc[d] = "done"
        /\ posts[d][1].text = TooLongMsg

\* C7: what execute_query returns for n fetched rows: all of them with the
\* exact count when n <= 10, the first 10 with "10 of n rows (limited)"
\* when n > 10.
C7_RowCap ==
    \A c \in Cmds :
        (pc[c] \in {"finally", "format"} /\ exc[c] = NoError) =>
            LET rows == fetched[c].rows
                n == Len(rows)
            IN  /\ result[c].columns = fetched[c].columns
                /\ n <= MAX_RESULT_ROWS =>
                      /\ result[c].rows = rows
                      /\ result[c].info =
                            IF n = 1 THEN <<N(1), L(" row")>> ELSE <<N(n), L(" rows")>>
                /\ n > MAX_RESULT_ROWS =>
                      /\ result[c].rows = [i \in 1..MAX_RESULT_ROWS |-> rows[i]]
                      /\ result[c].info =
                            <<N(MAX_RESULT_ROWS), L(" of "), N(n), L(" rows (limited)")>>

\* C7 witness: more rows fetched than the cap, the cap returned.
C7_Witness ==
    \E c \in Cmds :
        /\ pc[c] = "format"
        /\ Len(fetched[c].rows) > MAX_RESULT_ROWS
        /\ Len(result[c].rows) = MAX_RESULT_ROWS

\* C8: a command that failed in generation or execution delivers from the
\* except clause first; it has nothing delivered before, its one delivery
\* is the formatted error, and after that delivery, failed or not, the
\* unit has ended with no second delivery.
C8_OneErrorDelivery ==
    \A c \in Cmds :
        /\ (pc[c] \in {"handle", "posting"}
              /\ exc[c].cls \in {"SQLGenerationError", "ValidationError", "DatabaseError"}) =>
              /\ posts[c] = <<>>
              /\ pc[c] = "posting" =>
                    outbox[c] = [text |-> ErrorReply(exc[c]), origin |-> "except"]
        /\ (posts[c] # <<>> /\ posts[c][1].origin = "except") =>
              /\ Len(posts[c]) = 1
              /\ pc[c] = "done"

\* C8 witness: the delivery of the error message failed and the unit ended
\* with that single attempt.
C8_Witness ==
    \E c \in Cmds :
        /\ pc[c] = "done"
        /\ outcome[c] = "raised"
        /\ Len(posts[c]) = 1
        /\ posts[c][1].origin = "except"
        /\ ~Delivered(posts[c][1].status)

\* C9: the text delivered for a typed error holds exactly one warning glyph
\* (all errors that reach the except clauses are BotErrors).
C9_OneGlyph ==
    \A c \in Cmds : \A i \in 1..Len(posts[c]) :
        posts[c][i].origin = "except" => GlyphCount(posts[c][i].text) = 1

\* C10: the DatabaseError raised for a cancelled statement carries the
\* "query took too long" message.
C10_TimeoutMessage ==
    \A c \in Cmds :
        (exc[c].cls = "DatabaseError" /\ exc[c].cause = "QueryCanceledError") =>
            exc[c].user_friendly = TookTooLongMsg

\* C11: a request with an invalid signature gets no further than the
\* signature check: once checked it is answered 401, its form is never read
\* (no question), no task runs, and no model call, query or delivery is
\* ever made for it.
C11_InvalidSignature ==
    \A c \in Cmds :
        (pc[c] # "idle" /\ ~request[c].sig) =>
            /\ pc[c] \in {"recv", "rejected"}
            /\ pc[c] = "rejected" => response[c] = Unauthorized
            /\ pc[c] = "recv" => response[c] = NoResponse
            /\ question[c] = NoText
            /\ outbox[c] = NoMessage
            /\ calls[c] = NoCalls
            /\ posts[c] = <<>>
            /\ sent[c] = <<>>
            /\ outcome[c] = "pending"

\* C11 witness: a request with a non-blank text and an invalid signature
\* was answered 401 while the other command ran to its end.
C11_Witness ==
    \E c, d \in Cmds :
        /\ pc[c] = "rejected"
        /\ ~request[c].sig
        /\ ~IsBlank(request[c].text)
        /\ response[c] = Unauthorized
        /\ pc[d] = "done"

\* the denylisted keywords as they may be written
MutatingTokens == {"DROP", "drop", "Delete", "UPDATE", "INSERT", "ALTER", "truncate"}

\* C12: for every SQL text whose first token is a mutating keyword, in any
\* of the letter cases, and for every text the parser raises on,
\* _is_safe_query is false; execute_query, once entered with such a text,
\* has raised the ValidationError with no checkout and nothing sent.
C12_MutatingRejected ==
    LET text == sql[1] IN
    ((text # <<>> /\ Head(text) \in MutatingTokens) \/ ParseRaises(text)) =>
        /\ ~IsSafeQuery(text)
        /\ calls[1].exec > 0 =>
              /\ pc[1] = "handle"
              /\ exc[1] = ValidationFailed
              /\ calls[1].getconn = 0
              /\ sent[1] = <<>>

\* C12 witness: execute_query rejected a text of MaxSqlLen tokens that
\* starts with a lower-case "drop" and goes on with a SELECT keyword.
C12_Witness ==
    /\ pc[1] = "handle"
    /\ exc[1] = ValidationFailed
    /\ Len(sql[1]) = MaxSqlLen
    /\ Head(sql[1]) = "drop"
    /\ Upper(sql[1][2]) = "SELECT"

\* the message of a successful query is being delivered
DeliveringResult(c) ==
    pc[c] = "posting" /\ outbox[c].origin = "try" /\ result[c].info # NoText

NoDataText == <<L("*Results:*\n\nNo data found.")>>

IsCell(p) == p.k = "cell"
IsNewline(p) == p = L("\n")
IsFence(p) == p = FENCE

\* text is a code-block table of the result: header, separator line, one
\* line per row in order, then the descriptor as trailing annotation
IsTableOf(text, r) ==
    LET nc == Len(r.columns)
        nr == Len(r.rows)
        hl == IF nc = 0 THEN 0 ELSE 2 * nc - 1
        tail == <<FENCE, L("\n_")>> \o r.info \o <<L("_")>>
    IN  /\ Len(text) >= 2 + hl + 3 + Len(tail)
        /\ text[1] = L("*Results:*\n")
        /\ text[2] = FENCE
        /\ \A k \in 1..nc : text[2 + 2 * k - 1] = L(r.columns[k])
        /\ \A k \in 1..(nc - 1) : text[2 + 2 * k] = L(" | ")
        /\ text[2 + hl + 1] = L("\n")
        /\ text[2 + hl + 2].k = "run" /\ text[2 + hl + 2].s = "-"
        /\ text[2 + hl + 3] = L("\n")
        /\ SelectSeq(text, IsCell) =
              [j \in 1..(nr * nc) |->
                  Cell(r.columns[((j - 1) % nc) + 1], r.rows[((j - 1) \div nc) + 1])]
        /\ Len(SelectSeq(text, IsNewline)) = 2 + (nr - 1)
        /\ Len(SelectSeq(text, IsFence)) = 2
        /\ SubSeq(text, Len(text) - Len(tail) + 1, Len(text)) = tail

\* C13, as claimed: the delivered result message is the no-results text
\* exactly when the result has zero columns, and is the table of the
\* result whenever it has a column.
C13_NoResultsIffNoColumns ==
    \A c \in Cmds :
        DeliveringResult(c) =>
            /\ outbox[c].text = NoDataText <=> result[c].columns = <<>>
            /\ result[c].columns # <<>> => IsTableOf(outbox[c].text, result[c])

\* C13, amended: the delivered result message is the no-data text exactly
\* when the result has zero rows, and is the table of the result whenever
\* it has a row.
C13_NoDataIffNoRows ==
    \A c \in Cmds :
        DeliveringResult(c) =>
            /\ outbox[c].text = NoDataText <=> result[c].rows = <<>>
            /\ result[c].rows # <<>> => IsTableOf(outbox[c].text, result[c])

\* C13 witness: a result with columns and zero rows is answered with the
\* no-data text while the other command delivers a one-row table.
C13_Witness ==
    \E c, d \in Cmds :
        /\ DeliveringResult(c)
        /\ result[c].columns # <<>>
        /\ result[c].rows = <<>>
        /\ outbox[c].text = NoDataText
        /\ posts[d] # <<>>
        /\ posts[d][1].origin = "try"
        /\ Len(SelectSeq(posts[d][1].text, IsCell)) = 2
        /\ posts[d][1].text[Len(posts[d][1].text) - 2] = N(1)

\* the stages of an acknowledged command whose unit has not ended
Pending ==
    {"acked", "generate", "execute", "getconn", "settimeout", "query", "commit",
     "finally", "format", "handle", "posting"}

\* C14: a background unit that has ended has made at least one delivery
\* attempt, and whenever acknowledged commands have units that have not
\* ended, a state follows in which all of them have ended.
C14_RunsToEnd ==
    /\ [](\A c \in Cmds : pc[c] = "done" => Len(posts[c]) >= 1)
    /\ (\E c \in Cmds : pc[c] \in Pending) ~> (\A c \in Cmds : pc[c] \notin Pending)

\* C14 witness: one unit ended by an exception after a validation message
\* and its failure report, the other after a database failure with its
\* connection released and the error delivered.
C14_Witness ==
    \E c, d \in Cmds :
        /\ pc[c] = "done"
        /\ pc[d] = "done"
        /\ posts[c][1].text = UsageMsg
        /\ Len(posts[c]) = 2
        /\ outcome[c] = "raised"
        /\ posts[d][1].origin = "except"
        /\ calls[d].putconn = 1

\* C15: no command has a callback POST made after a failed one: the POSTs
\* of a command are at most one (and exactly one once its unit has ended).
C15_SinglePost ==
    \A c \in Cmds :
        /\ Len(posts[c]) <= 1
        /\ pc[c] = "done" => Len(posts[c]) = 1

\* C16: no background unit ends with an exception leaving
\* process_slash_command.
C16_NothingPropagates ==
    \A c \in Cmds : outcome[c] # "raised"

\* the place of each stage in the pipeline order
Rank(stage) ==
    CASE stage = "idle" -> 0
      [] stage = "recv" -> 1
      [] stage \in {"verified", "rejected"} -> 2
      [] stage = "scheduled" -> 3
      [] stage = "acked" -> 4
      [] stage = "generate" -> 5
      [] stage = "execute" -> 6
      [] stage = "getconn" -> 7
      [] stage = "settimeout" -> 8
      [] stage = "query" -> 9
      [] stage = "commit" -> 10
      [] stage = "finally" -> 11
      [] stage \in {"format", "handle"} -> 12
      [] stage = "posting" -> 13
      [] OTHER -> 14

ExecuteStages == {"execute", "getconn", "settimeout", "query", "commit", "finally"}

\* C17: within one command the model is called at most once and
\* execute_query at most once; execute_query runs only after the model call
\* returned a text, and the text passed to the connection is that text; a
\* result message is delivered only after execute_query returned a result;
\* every step of a command moves it to a later stage, the generated text
\* is never replaced, and once a stage has failed no call is made any more
\* and only the error delivery follows.
C17_StageOrder ==
    /\ [](\A c \in Cmds :
            /\ calls[c].llm <= 1
            /\ calls[c].exec <= 1
            /\ calls[c].exec <= calls[c].llm
            /\ calls[c].getconn <= calls[c].exec
            /\ pc[c] \in ExecuteStages =>
                  calls[c].llm = 1 /\ sql[c] # <<>> /\ posts[c] = <<>>
            /\ \A i \in 1..Len(sent[c]) :
                  /\ calls[c].exec = 1
                  /\ (sent[c][i].kind = "query" /\ pc[c] # "done") =>
                        sent[c][i].sql = sql[c]
            /\ pc[c] \in {"format", "posting"} /\ result[c] # NoResult =>
                  /\ calls[c].exec = 1
                  /\ calls[c].getconn = 1
                  /\ calls[c].putconn = 1
                  /\ Len(sent[c]) = 2
            /\ \A i \in 1..Len(posts[c]) :
                  (posts[c][i].origin = "try"
                     /\ posts[c][i].text \notin {UsageMsg, TooLongMsg}) =>
                        /\ i = 1
                        /\ calls[c].putconn = 1
                        /\ Len(sent[c]) = 2)
    /\ [][\A c \in Cmds :
            /\ pc'[c] # pc[c] => Rank(pc'[c]) > Rank(pc[c])
            /\ (sql[c] # <<>> /\ pc'[c] # "done") => sql'[c] = sql[c]
            /\ exc[c] # NoError =>
                  /\ pc'[c] \in {pc[c], "finally", "handle", "posting", "done"}
                  /\ calls'[c].llm = calls[c].llm
                  /\ calls'[c].exec = calls[c].exec
                  /\ calls'[c].getconn = calls[c].getconn
                  /\ sent'[c] = sent[c]
                  /\ \A i \in 1..Len(posts'[c]) :
                        i > Len(posts[c]) => posts'[c][i].origin = "except"]_vars

\* C17 witness: one command went through every stage to a delivered
\* result, the other failed in execution and delivered the error.
C17_Witness ==
    \E c, d \in Cmds :
        /\ pc[c] = "done"
        /\ outcome[c] = "returned"
        /\ Len(posts[c]) = 1
        /\ posts[c][1].origin = "try"
        /\ calls[c] = [llm |-> 1, exec |-> 1, getconn |-> 1, putconn |-> 1]
        /\ pc[d] = "done"
        /\ calls[d] = [llm |-> 1, exec |-> 1, getconn |-> 1, putconn |-> 1]
        /\ posts[d][1].origin = "except"

\* the synchronous calls of the background unit: the model call and the
\* steps of execute_query
BlockingStages == {"generate", "execute", "getconn", "settimeout", "query", "commit", "finally"}

\* the next step of the handler of a command is ready to run
HandlerCanStep(c) ==
    ENABLED (Receive(c) \/ Verify(c) \/ Schedule(c) \/ Acknowledge(c))

\* C18: while one command is inside the model call, the checkout of a
\* connection or the database execution, the handler of another command
\* that has not been acknowledged yet can take its next step.
C18_AckNotBlocked ==
    \A a, b \in Cmds :
        (/\ a # b
         /\ pc[a] \in BlockingStages
         /\ pc[b] \in {"idle", "recv", "verified", "scheduled"}
         /\ pc[b] # "idle" => request[b].sig)
            => HandlerCanStep(b)

\* checkouts not yet released, counted over a set of commands
RECURSIVE Outstanding(_)
Outstanding(S) ==
    IF S = {} THEN 0
    ELSE LET c == CHOOSE x \in S : TRUE
         IN  (calls[c].getconn - calls[c].putconn) + Outstanding(S \ {c})

\* the stages of execute_query in which the connection is held
HoldingStages == {"settimeout", "query", "commit", "finally"}

Is2xx(status) == status \div 100 = 2

\* the POST was taken for a delivery: send_response returned, and with it
\* process_slash_command
TakenAsDelivered(c, i) ==
    /\ i = Len(posts[c])
    /\ pc[c] = "done"
    /\ outcome[c] = "returned"

\* the POST was taken for a failure: send_response raised the SlackError,
\* which the try block hands to the except clause and an except clause lets
\* go
TakenAsFailure(c, i) ==
    LET p == posts[c][i]
    IN  IF i < Len(posts[c])
        THEN /\ p.origin = "try"
             /\ posts[c][i + 1].origin = "except"
             /\ posts[c][i + 1].text = ErrorReply(SendFailed(p.status))
        ELSE IF p.origin = "try"
        THEN /\ pc[c] = "posting"
             /\ exc[c] = SendFailed(p.status)
             /\ exc[c].cls = "SlackError"
        ELSE /\ pc[c] = "done"
             /\ outcome[c] = "raised"

\* C20 as stated: a callback POST is taken for a delivery exactly when its
\* status is a 2xx one, and for a failure otherwise.
C20_Every2xxDelivers ==
    \A c \in Cmds : \A i \in 1..Len(posts[c]) :
        IF Is2xx(posts[c][i].status)
        THEN TakenAsDelivered(c, i)
        ELSE TakenAsFailure(c, i)

\* C20 amended: a callback POST is taken for a delivery exactly when its
\* status is 200; every other status, the other 2xx ones included, and a
\* transport error raise the SlackError.
C20_Only200Delivers ==
    \A c \in Cmds : \A i \in 1..Len(posts[c]) :
        IF posts[c][i].status = HTTP_OK
        THEN TakenAsDelivered(c, i)
        ELSE TakenAsFailure(c, i)

\* C20 witness: a POST answered 204 raised, and the POST of the error
\* message that followed was answered 200 and returned.
C20_Witness ==
    \E c \in Cmds :
        /\ Len(posts[c]) = 2
        /\ posts[c][1].status = 204
        /\ posts[c][2].status = HTTP_OK
        /\ posts[c][2].text = ErrorReply(SendFailed(204))
        /\ outcome[c] = "returned"

\* the stages of a background unit outside execute_query: validation, the
\* model call, formatting, the except clauses and the callback delivery
OutsideExecution == {"acked", "generate", "format", "handle", "posting"}

\* C21: a command in validation, in the model call, in formatting or in
\* callback delivery, error delivery included, has no connection checked
\* out; a connection is held only by the command whose execute_query is
\* running, so no connection is out of the pool while a model call or a
\* callback POST is awaited.
C21_HeldOnlyWhileExecuting ==
    /\ \A c \in Cmds :
          /\ pc[c] \in OutsideExecution => ~conn[c]
          /\ conn[c] => (loop = c /\ pc[c] \in HoldingStages)
    /\ (\E c \in Cmds : pc[c] \in {"generate", "posting"} /\ loop \in {0, c}) =>
          CheckedOut = 0

\* C21 witness: one command is delivering the error of an execute_query
\* that failed with a connection checked out, the other is in the model
\* call, and the pool is whole.
C21_Witness ==
    \E c, d \in Cmds :
        /\ pc[c] = "posting"
        /\ outbox[c].origin = "except"
        /\ calls[c].getconn = 1
        /\ pc[d] = "generate"
        /\ CheckedOut = 0

=============================================================================
